---- MODULE Spec2Model ----
(***************************************************************************)
(* API-Check: the probe executor (llmService), the audit log sink          *)
(* (dbService) and the worker-pool scheduler (Dashboard.runTests,          *)
(* BulkTestView.handleStart), as state machines.                           *)
(*                                                                         *)
(* SpecProbe / FairSpecProbe : calls of the four probe operations and the  *)
(*                             saves they hand to the IndexedDB sink.      *)
(* SpecSched                 : one scheduler run over a task queue.        *)
(***************************************************************************)
EXTENDS Integers, Sequences, FiniteSets, TLC

\* ------------------------------------------------------------------ bounds
\* Number of probe calls of one behaviour of SpecProbe.
MaxCalls == 1

Calls == 1..MaxCalls

\* ---------------------------------------------------------- probe: values
Ops == {"fetchModels", "testModelLatency", "testModelToolSupport", "sendChatMessage"}

\* HTTP statuses the mocked endpoint answers with.
HttpStatuses == {200, 401}

\* Variant: every status below 500 counts as ok.
ResponseOkLoose(s) == s >= 200 /\ s < 500

\* response.ok
ResponseOk(s) == s >= 200 /\ s < 300

NoLog == [id |-> 0, timestamp |-> 0, type |-> "none", status |-> 0, error |-> "none",
          body |-> "none"]

NoRet == [kind |-> "none", status |-> "none", statusCode |-> -1, message |-> "none"]

NoCfg == [op |-> "none", urlEmpty |-> FALSE, featOff |-> FALSE, stream |-> FALSE,
          silent |-> FALSE]

\* RequestLog['type'] written by each operation.
LogType(op) ==
    CASE op = "fetchModels" -> "models"
      [] op = "testModelLatency" -> "test"
      [] op = "testModelToolSupport" -> "tool_check"
      [] OTHER -> "chat"

\* createLogEntry: id is crypto.randomUUID() (one fresh id per call, here the
\* call's index), timestamp is Date.now() (here the call's index too), status
\* 0, no error, no response body.
createLogEntry(c, op) ==
    [id |-> c, timestamp |-> c, type |-> LogType(op), status |-> 0, error |-> "none",
     body |-> "none"]

\* Whether the operation creates an AbortController and a timer before its fetch.
HasTimer(op) == op \in {"fetchModels", "testModelLatency", "testModelToolSupport"}

\* Variant: no timer is set.
ArmTimerNever(op) == "none"

\* setTimeout(() => controller.abort(), ...) before the fetch.
ArmTimer(op) == IF HasTimer(op) THEN "armed" ELSE "none"

\* What a fully read body can turn out to be, per operation.
BodyShapes(op, ok, stream) ==
    IF ~ok THEN {"text"}
    ELSE CASE op = "fetchModels" -> {"array", "data", "other"}
           [] op = "testModelLatency" -> {"json"}
           [] op = "testModelToolSupport" -> {"tool", "plain", "null"}
           [] OTHER -> IF stream THEN {"sse"} ELSE {"content", "null"}

VARIABLES
    \* probe executor
    pc,        \* call -> "idle" | "fetch" | "body" | "done"
    cfg,       \* call -> the operation and the configuration it was called with
    log,       \* call -> the RequestLog object of the call (mutable)
    timer,     \* call -> "none" | "armed" | "cleared" | "fired"
    expired,   \* call -> the call's T seconds elapsed while it was in flight
    ret,       \* call -> what the call returned or threw
    \* audit log sink
    saves,     \* call -> sequence of saveLog invocations of the call
    store,     \* the object store 'logs': the records, in insertion order
    \* scheduler run (runTests / handleStart)
    run,            \* the run: state, view, test mode, rounds, testConcurrency, workers
    tasks,          \* the queue as first built: task index -> [key, model]
    queue,          \* the shared queue: indices of the tasks not yet dequeued
    wpc,            \* worker -> "none" | "await" | "exit"
    wtask,          \* worker -> index of the task whose probe it awaits
    wexpired,       \* worker -> the deadline of its probe in flight has passed
    waborted,       \* worker -> the AbortController of its probe was aborted
    probed,         \* task index -> number of probes started for it
    raw,            \* task index -> the result its probe returned
    finished,       \* task indices in the order their probes completed
    sessionResults, \* Dashboard: model -> results of its rounds, in completion order
    testResults,    \* Dashboard: model -> published (aggregated) entry
    matrix,         \* BulkTestView: rows [key, results: model -> cell]
    completedCount, \* the closure counter (completedCount / completed)
    testProgress,   \* the progress state: [current, total] or Null
    \* endpoint resolution (getEndpoint)
    api,            \* the ApiConfig whose endpoint is resolved
    resolved,       \* NoUrl, or the kind asked for and the URL getEndpoint returned
    \* Dashboard: the connection selected in the sidebar
    selectedApiId,
    \* a streamed sendChatMessage exchange
    chat,           \* the stream, what was read of it and what onChunk was given
    \* getLogs
    got             \* NoQuery, or the arguments and the records of the getLogs call just made

probeVars == <<pc, cfg, log, timer, expired, ret, saves, store>>

schedVars == <<run, tasks, queue, wpc, wtask, wexpired, waborted, probed, raw, finished,
               sessionResults, testResults, matrix, completedCount, testProgress,
               selectedApiId>>

endpointVars == <<api, resolved>>

chatVars == <<chat>>

queryVars == <<got>>

vars == <<pc, cfg, log, timer, expired, ret, saves, store,
          run, tasks, queue, wpc, wtask, wexpired, waborted, probed, raw, finished,
          sessionResults, testResults, matrix, completedCount, testProgress,
          api, resolved, selectedApiId, chat, got>>

\* ------------------------------------------------------------ sink: saveLog
\* A saveLog invocation right after its call: indexedDB.open was requested.
NewSave == [phase |-> "opening", snap |-> NoLog]

\* The state of the promise saveLog returned.
SavePromise(sv) ==
    CASE sv.phase \in {"opening", "tx"} -> "pending"
      [] sv.phase \in {"stored", "openFailed"} -> "resolved"
      [] OTHER -> "rejected"

HasKey(st, id) == \E i \in 1..Len(st) : st[i].id = id

\* Variant: store.add on a store without the key constraint.
StoreAddNoKey(st, rec) == Append(st, rec)

\* store.add(log) on a store with keyPath 'id': ConstraintError when the key exists.
StoreAdd(st, rec) == IF HasKey(st, rec.id) THEN st ELSE Append(st, rec)

\* openDB() succeeded: the transaction is created and store.add(log) clones the
\* log object as it is now.
SaveOpens(c, k) ==
    /\ k \in 1..Len(saves[c])
    /\ saves[c][k].phase = "opening"
    /\ saves' = [saves EXCEPT ![c][k] = [phase |-> "tx", snap |-> log[c]]]
    /\ UNCHANGED <<pc, cfg, log, timer, expired, ret, store>>
    /\ UNCHANGED schedVars
    /\ UNCHANGED endpointVars
    /\ UNCHANGED chatVars
    /\ UNCHANGED queryVars

\* openDB() rejected: caught by saveLog's try/catch, console.error, resolved.
SaveOpenFails(c, k) ==
    /\ k \in 1..Len(saves[c])
    /\ saves[c][k].phase = "opening"
    /\ saves' = [saves EXCEPT ![c][k].phase = "openFailed"]
    /\ UNCHANGED <<pc, cfg, log, timer, expired, ret, store>>
    /\ UNCHANGED schedVars
    /\ UNCHANGED endpointVars
    /\ UNCHANGED chatVars
    /\ UNCHANGED queryVars

\* The readwrite transaction runs: the add succeeds and the transaction
\* completes, or the key exists and tx.onerror rejects the returned promise.
SaveCommits(c, k) ==
    /\ k \in 1..Len(saves[c])
    /\ saves[c][k].phase = "tx"
    /\ store' = StoreAdd(store, saves[c][k].snap)
    /\ saves' = [saves EXCEPT ![c][k].phase =
                    IF HasKey(store, saves[c][k].snap.id) THEN "dupRejected" ELSE "stored"]
    /\ UNCHANGED <<pc, cfg, log, timer, expired, ret>>
    /\ UNCHANGED schedVars
    /\ UNCHANGED endpointVars
    /\ UNCHANGED chatVars
    /\ UNCHANGED queryVars

\* The transaction fails for another reason (quota, disk): tx.onerror rejects.
SaveTxFails(c, k) ==
    /\ k \in 1..Len(saves[c])
    /\ saves[c][k].phase = "tx"
    /\ saves' = [saves EXCEPT ![c][k].phase = "txFailed"]
    /\ UNCHANGED <<pc, cfg, log, timer, expired, ret, store>>
    /\ UNCHANGED schedVars
    /\ UNCHANGED endpointVars
    /\ UNCHANGED chatVars
    /\ UNCHANGED queryVars

\* ------------------------------------------------------- probe: the handlers
\* Variant: the call ends without calling saveLog.
FinishNoSave(c, lg, r, n) ==
    /\ log' = [log EXCEPT ![c] = lg]
    /\ ret' = [ret EXCEPT ![c] = r]
    /\ saves' = saves
    /\ pc' = [pc EXCEPT ![c] = "done"]

\* The call ends: the log object as last written, what is returned or thrown,
\* and the n saveLog(log) calls made on the way.
Finish(c, lg, r, n) ==
    /\ log' = [log EXCEPT ![c] = lg]
    /\ ret' = [ret EXCEPT ![c] = r]
    /\ saves' = [saves EXCEPT ![c] = saves[c] \o [i \in 1..n |-> NewSave]]
    /\ pc' = [pc EXCEPT ![c] = "done"]

Returned(st, code, msg) == [kind |-> "returned", status |-> st, statusCode |-> code, message |-> msg]

Thrown(msg) == [kind |-> "thrown", status |-> "none", statusCode |-> -1, message |-> msg]

\* Variant: a catch block that logs and re-throws, whatever the operation.
CatchRethrows(c, lg, err, already) ==
    Finish(c, [lg EXCEPT !.error = err], Thrown(err), already + 1)

\* The catch block of each operation, entered with an error of kind err
\* ("abort": AbortError, else the error's own message) after `already` earlier
\* saveLog calls of the same call.
Catch(c, lg, err, already) ==
    LET op == cfg[c].op
        lg2 == [lg EXCEPT !.error = err]
    IN  CASE op = "fetchModels" ->
               Finish(c, lg2, Thrown(IF err = "abort" THEN "timeout" ELSE err), already + 1)
          [] op = "testModelLatency" ->
               Finish(c, lg2, Returned("error", 0, IF err = "abort" THEN "timeout" ELSE err),
                      already + 1)
          [] op = "testModelToolSupport" ->
               Finish(c, lg2, Returned("error", -1, err), already + 1)
          [] OTHER ->
               Finish(c, lg2, Thrown(err), already + 1)

\* Variant: the resolved URL is not tested.
UrlMissingIgnored(urlEmpty) == FALSE

\* if (!url): getEndpoint returned the empty string.
UrlMissing(urlEmpty) == urlEmpty

\* The call is made: endpoint resolution, then the request is sent.
StartCall(c, op, urlEmpty, featOff, stream, silent) ==
    /\ pc[c] = "idle"
    /\ cfg' = [cfg EXCEPT ![c] = [op |-> op, urlEmpty |-> urlEmpty,
                                  featOff |-> featOff, stream |-> stream,
                                  silent |-> silent]]
    /\ IF op = "fetchModels" /\ featOff
       THEN /\ pc' = [pc EXCEPT ![c] = "done"]
            /\ ret' = [ret EXCEPT ![c] = Returned("models", -1, "none")]
            /\ UNCHANGED <<log, timer, saves>>
       ELSE IF UrlMissing(urlEmpty)
       THEN /\ pc' = [pc EXCEPT ![c] = "done"]
            /\ ret' = [ret EXCEPT ![c] =
                          IF op \in {"fetchModels", "sendChatMessage"}
                          THEN Thrown("config")
                          ELSE Returned("error", -1, "config")]
            /\ UNCHANGED <<log, timer, saves>>
       ELSE /\ pc' = [pc EXCEPT ![c] = "fetch"]
            /\ log' = [log EXCEPT ![c] = createLogEntry(c, op)]
            /\ timer' = [timer EXCEPT ![c] = ArmTimer(op)]
            /\ UNCHANGED <<ret, saves>>
    /\ UNCHANGED <<expired, store>>
    /\ UNCHANGED schedVars
    /\ UNCHANGED endpointVars
    /\ UNCHANGED chatVars
    /\ UNCHANGED queryVars

\* fetch() resolved with the response headers: clearTimeout, log.status.
FetchResolves(c, s) ==
    /\ pc[c] = "fetch"
    /\ ~cfg[c].silent
    /\ timer[c] # "fired"
    /\ pc' = [pc EXCEPT ![c] = "body"]
    /\ log' = [log EXCEPT ![c].status = s]
    /\ timer' = [timer EXCEPT ![c] = IF timer[c] = "armed" THEN "cleared" ELSE timer[c]]
    /\ UNCHANGED <<cfg, expired, ret, saves, store>>
    /\ UNCHANGED schedVars
    /\ UNCHANGED endpointVars
    /\ UNCHANGED chatVars
    /\ UNCHANGED queryVars

\* fetch() rejected with a transport error.
FetchFails(c) ==
    /\ pc[c] = "fetch"
    /\ ~cfg[c].silent
    /\ timer[c] # "fired"
    /\ Catch(c, log[c], "network", 0)
       \* only fetchModels' catch block calls clearTimeout
    /\ timer' = [timer EXCEPT ![c] = IF timer[c] = "armed" /\ cfg[c].op = "fetchModels"
                                      THEN "cleared" ELSE timer[c]]
    /\ UNCHANGED <<cfg, expired, store>>
    /\ UNCHANGED schedVars
    /\ UNCHANGED endpointVars
    /\ UNCHANGED chatVars
    /\ UNCHANGED queryVars

\* The call's T seconds (10 for fetchModels, timeoutSeconds for the two tests)
\* are over while it is in flight: the timer callback, if the timer is still
\* armed, calls controller.abort().
DeadlineExpires(c) ==
    /\ pc[c] \in {"fetch", "body"}
    /\ HasTimer(cfg[c].op)
    /\ ~expired[c]
    /\ expired' = [expired EXCEPT ![c] = TRUE]
    /\ timer' = [timer EXCEPT ![c] = IF timer[c] = "armed" THEN "fired" ELSE timer[c]]
    /\ UNCHANGED <<pc, cfg, log, ret, saves, store>>
    /\ UNCHANGED schedVars
    /\ UNCHANGED endpointVars
    /\ UNCHANGED chatVars
    /\ UNCHANGED queryVars

\* The aborted fetch rejects with AbortError.
FetchAborted(c) ==
    /\ pc[c] = "fetch"
    /\ timer[c] = "fired"
    /\ Catch(c, log[c], "abort", 0)
    /\ UNCHANGED <<cfg, timer, expired, store>>
    /\ UNCHANGED schedVars
    /\ UNCHANGED endpointVars
    /\ UNCHANGED chatVars
    /\ UNCHANGED queryVars

\* The response body was read to its end and turned out to have `shape`.
BodyRead(c, shape) ==
    LET op == cfg[c].op
        s == log[c].status
        lg == [log[c] EXCEPT !.body = shape]
    IN
    /\ pc[c] = "body"
    /\ shape \in BodyShapes(op, ResponseOk(s), cfg[c].stream)
    /\ CASE op = "fetchModels" ->
              IF ~ResponseOk(s)
              THEN Catch(c, [lg EXCEPT !.error = "text"], "http", 1)
              ELSE IF shape = "other"
              THEN Catch(c, lg, "format", 1)
              ELSE Finish(c, lg, Returned("models", -1, "none"), 1)
         [] op = "testModelLatency" ->
              IF ~ResponseOk(s)
              THEN Finish(c, [lg EXCEPT !.error = "text"], Returned("error", s, "http"), 1)
              ELSE Finish(c, lg, Returned("success", s, "none"), 1)
         [] op = "testModelToolSupport" ->
              IF ~ResponseOk(s)
              THEN Finish(c, [lg EXCEPT !.error = "text"], Returned("error", -1, "http"), 1)
              ELSE IF shape = "null"
              THEN Catch(c, lg, "format", 1)
              ELSE Finish(c, lg, Returned(IF shape = "tool" THEN "supported" ELSE "unsupported",
                                          -1, shape), 1)
         [] OTHER ->
              IF ~ResponseOk(s)
              THEN Catch(c, [lg EXCEPT !.error = "text"], "http", 1)
              ELSE IF shape = "null"
              THEN Catch(c, lg, "format", 1)
              ELSE Finish(c, lg, Returned("ok", -1, "none"), 1)
    /\ UNCHANGED <<cfg, timer, expired, store>>
    /\ UNCHANGED schedVars
    /\ UNCHANGED endpointVars
    /\ UNCHANGED chatVars
    /\ UNCHANGED queryVars

\* Reading or parsing the body threw (connection lost, invalid JSON, no body).
BodyFails(c) ==
    /\ pc[c] = "body"
    /\ Catch(c, log[c], "network", 0)
    /\ UNCHANGED <<cfg, timer, expired, store>>
    /\ UNCHANGED schedVars
    /\ UNCHANGED endpointVars
    /\ UNCHANGED chatVars
    /\ UNCHANGED queryVars

\* ------------------------------------------------------ scheduler: values
\* Tasks of one run at most.
MaxTasks == 3

\* Largest testConcurrency setting tried.
MaxConcurrency == 2

Workers == 1..MaxConcurrency

Models == {"m1", "m2"}

Keys == {"k1", "k2"}

\* Array.from(selectedModelIds): the selected models in the set's order.
Selections == {<<"m1">>, <<"m1", "m2">>}

\* keysInput split into lines, trimmed, empty lines dropped.
KeyLists == {<<"k1">>, <<"k1", "k2">>, <<"k1", "k1">>}

\* Latencies (ms) a probe can measure.
LatencyValues == {10, 25}

Null == [null |-> TRUE]

NoResult == [status |-> "none", latency |-> 0, statusCode |-> -1, message |-> "none"]

\* How a probe in flight can end, per test mode.
Outcomes(mode) ==
    IF mode = "latency" THEN {"success", "http", "network", "timeout"}
    ELSE {"supported", "unsupported", "http", "network", "timeout"}

\* Variant: the model's list is started anew with each result.
PushResultOverwrites(rs, result) == <<result>>

\* sessionResults[modelId].push(result)
PushResult(rs, result) == Append(rs, result)

\* The TestResult testModelLatency returns (statusCode -1: the field is absent).
testModelLatencyResult(o, lat) ==
    CASE o = "success" -> [status |-> "success", latency |-> lat, statusCode |-> 200,
                           message |-> "none"]
      [] o = "http" -> [status |-> "error", latency |-> 0, statusCode |-> 401,
                        message |-> "http"]
      [] o = "timeout" -> [status |-> "error", latency |-> 0, statusCode |-> 0,
                           message |-> "timeout"]
      [] OTHER -> [status |-> "error", latency |-> 0, statusCode |-> 0,
                   message |-> "network"]

\* The ToolTestResult testModelToolSupport returns.
testModelToolSupportResult(o, lat) ==
    CASE o = "supported" -> [status |-> "supported", latency |-> lat, statusCode |-> -1,
                             message |-> "tool"]
      [] o = "unsupported" -> [status |-> "unsupported", latency |-> lat, statusCode |-> -1,
                               message |-> "plain"]
      [] o = "http" -> [status |-> "error", latency |-> lat, statusCode |-> -1,
                        message |-> "http"]
      [] o = "timeout" -> [status |-> "error", latency |-> 0, statusCode |-> -1,
                           message |-> "abort"]
      [] OTHER -> [status |-> "error", latency |-> 0, statusCode |-> -1,
                   message |-> "network"]

ProbeResult(mode, o, lat) ==
    IF mode = "latency" THEN testModelLatencyResult(o, lat)
    ELSE testModelToolSupportResult(o, lat)

RECURSIVE SumLatency(_)
\* modelRuns.reduce((sum, r) => sum + r.latency, 0)
SumLatency(rs) == IF rs = <<>> THEN 0 ELSE Head(rs).latency + SumLatency(Tail(rs))

\* Variant: Math.floor(a / b).
MathFloorDiv(a, b) == a \div b

\* Math.round(a / b) for a >= 0, b > 0.
MathRoundDiv(a, b) == (2 * a + b) \div (2 * b)

\* Number of rounds that count as a success in this test mode.
SuccessCount(mode, rs) ==
    Cardinality({i \in 1..Len(rs) :
        \/ mode = "latency" /\ rs[i].status = "success"
        \/ mode = "tool" /\ rs[i].status = "supported"})

\* Variant: the status of the round just completed.
NewStatusLast(mode, rs) == rs[Len(rs)].status

\* newStatus of the aggregation.
NewStatus(mode, rs) ==
    LET hasSuccess == SuccessCount(mode, rs) > 0
    IN  IF mode = "latency" THEN (IF hasSuccess THEN "success" ELSE "error")
        ELSE IF hasSuccess THEN "supported"
        ELSE IF \E i \in 1..Len(rs) : rs[i].status = "error" THEN "error"
        ELSE "unsupported"

\* The entry published for a model: the last result, with latency, status and
\* message replaced by the aggregates of the rounds so far.
Aggregate(mode, rounds, rs, result) ==
    LET avg == MathRoundDiv(SumLatency(rs), Len(rs))
    IN  [status |-> NewStatus(mode, rs),
         latency |-> avg,
         statusCode |-> result.statusCode,
         message |-> [ok |-> SuccessCount(mode, rs), of |-> rounds, avg |-> avg,
                      last |-> result.message]]

\* selectedModels.forEach(m => { for (i < rounds) queue.push(m) }).
RECURSIVE DashboardQueue(_, _)
DashboardQueue(sel, rounds) ==
    IF sel = <<>> THEN <<>>
    ELSE [i \in 1..rounds |-> [key |-> "", model |-> Head(sel)]]
            \o DashboardQueue(Tail(sel), rounds)

\* keys.forEach(key => targetModels.forEach(model => tasks.push({key, model}))).
RECURSIVE BulkQueue(_, _)
BulkQueue(keys, models) ==
    IF keys = <<>> THEN <<>>
    ELSE [i \in 1..Len(models) |-> [key |-> Head(keys), model |-> models[i]]]
            \o BulkQueue(Tail(keys), models)

\* Variant: one worker per task, the setting ignored.
WorkerCountPerTask(conc, n) == n

\* Array(Math.min(testConcurrency, queue.length)): the number of workers.
WorkerCount(conc, n) == IF conc < n THEN conc ELSE n

\* Variant: one AbortController shared by all probes in flight.
AbortTargetsAll(w) == {x \in Workers : wpc[x] = "await"}

\* Each probe creates its own AbortController: its timer aborts that call only.
AbortTargets(w) == {w}

\* Variant: Promise.race(workers).
JoinAny == \E w \in Workers : wpc[w] = "exit"

\* await Promise.all(workers): every worker's promise has resolved.
JoinAll == \A w \in Workers : wpc[w] # "await"

\* Variant: current computed from the progress state captured when the run began.
NextProgressStale(prog, cnt) == [prog EXCEPT !.current = 1]

\* setTestProgress(prev => prev ? {...prev, current: completedCount} : null) and
\* setProgress({current: completed, total: totalTasks}).
NextProgress(prog, cnt) == IF prog = Null THEN Null ELSE [prog EXCEPT !.current = cnt]

\* The row the result is written to: next.findIndex(r => r.key === key).
FindRow(mx, key) ==
    IF \E i \in 1..Len(mx) : mx[i].key = key
    THEN CHOOSE i \in 1..Len(mx) : mx[i].key = key /\ \A j \in 1..(i - 1) : mx[j].key # key
    ELSE 0

\* setResults(prev => ...): the cell [model] of the key's row is replaced.
SetCell(mx, key, model, result) ==
    LET i == FindRow(mx, key)
    IN  IF i = 0 THEN mx
        ELSE [mx EXCEPT ![i].results = [@ EXCEPT ![model] = result]]

\* ---------------------------------------------------- scheduler: the run
InitSchedVars ==
    /\ run = [state |-> "idle", view |-> "none", mode |-> "none", rounds |-> 0, conc |-> 0,
              W |-> 0, api |-> "none"]
    /\ tasks = <<>>
    /\ queue = <<>>
    /\ wpc = [w \in Workers |-> "none"]
    /\ wtask = [w \in Workers |-> 0]
    /\ wexpired = [w \in Workers |-> FALSE]
    /\ waborted = [w \in Workers |-> FALSE]
    /\ probed = <<>>
    /\ raw = <<>>
    /\ finished = <<>>
    /\ sessionResults = [m \in Models |-> <<>>]
    /\ testResults = [m \in Models |-> Null]
    /\ matrix = <<>>
    /\ completedCount = 0
    /\ testProgress = Null
    /\ selectedApiId = "api1"

\* The run is started: the queue is built, progress is reset, W workers are
\* created and each runs up to its first await: worker i dequeues task i and
\* sends its probe.
StartRun(view, mode, rounds, conc, q) ==
    LET n == Len(q)
        W == WorkerCount(conc, n)
    IN
    /\ run.state = "idle"
    /\ n >= 1
    /\ run' = [state |-> "running", view |-> view, mode |-> mode, rounds |-> rounds,
               conc |-> conc, W |-> W, api |-> selectedApiId]
    /\ tasks' = q
    /\ queue' = [i \in 1..(n - W) |-> W + i]
    /\ wpc' = [w \in Workers |-> IF w <= W THEN "await" ELSE "none"]
    /\ wtask' = [w \in Workers |-> IF w <= W THEN w ELSE 0]
    /\ probed' = [i \in 1..n |-> IF i <= W THEN 1 ELSE 0]
    /\ raw' = [i \in 1..n |-> NoResult]
    /\ finished' = <<>>
    /\ completedCount' = 0
    /\ testProgress' = [current |-> 0, total |-> n]
    /\ UNCHANGED <<wexpired, waborted, selectedApiId>>

\* Dashboard.runTests(settings) with the models selected.
runTests(sel, mode, rounds, conc) ==
    /\ StartRun("dashboard", mode, rounds, conc, DashboardQueue(sel, rounds))
       \* sessionResults = {}: the run's own record of its rounds
    /\ sessionResults' = [m \in Models |-> <<>>]
    /\ UNCHANGED <<testResults, matrix>>
    /\ UNCHANGED probeVars
    /\ UNCHANGED endpointVars
    /\ UNCHANGED chatVars
    /\ UNCHANGED queryVars

\* BulkTestView.handleStart with the keys entered and the target models.
handleStart(keys, models, conc) ==
    /\ StartRun("bulk", "latency", 1, conc, BulkQueue(keys, models))
       \* setResults(initialResults): one row per key, no cell yet
    /\ matrix' = [i \in 1..Len(keys) |->
                    [key |-> keys[i], results |-> [m \in Models |-> Null]]]
    /\ UNCHANGED <<sessionResults, testResults>>
    /\ UNCHANGED probeVars
    /\ UNCHANGED endpointVars
    /\ UNCHANGED chatVars
    /\ UNCHANGED queryVars

\* The timeoutSeconds of worker w's probe in flight have passed: its timer
\* callback aborts the call's controller.
ProbeDeadline(w) ==
    /\ run.state = "running"
    /\ wpc[w] = "await"
    /\ ~wexpired[w]
    /\ wexpired' = [wexpired EXCEPT ![w] = TRUE]
    /\ waborted' = [x \in Workers |-> waborted[x] \/ x \in AbortTargets(w)]
    /\ UNCHANGED <<run, tasks, queue, wpc, wtask, probed, raw, finished, sessionResults,
                   testResults, matrix, completedCount, testProgress, selectedApiId>>
    /\ UNCHANGED probeVars
    /\ UNCHANGED endpointVars
    /\ UNCHANGED chatVars
    /\ UNCHANGED queryVars

\* The probe worker w awaits returns (outcome o, measured latency lat); the
\* worker stores and publishes the result, counts it, and loops: it dequeues
\* the next task and sends its probe, or exits when the queue is empty.
WorkerResume(w, o, lat) ==
    LET t == wtask[w]
        task == tasks[t]
        m == task.model
        result == ProbeResult(run.mode, o, lat)
        modelRuns == PushResult(sessionResults[m], result)
        cnt == completedCount + 1
    IN
    /\ run.state = "running"
    /\ wpc[w] = "await"
    /\ o \in Outcomes(run.mode)
    /\ (o = "timeout") <=> waborted[w]
    /\ raw' = [raw EXCEPT ![t] = result]
    /\ finished' = Append(finished, t)
    /\ IF run.view = "dashboard"
       THEN /\ sessionResults' = [sessionResults EXCEPT ![m] = modelRuns]
            /\ testResults' = [testResults EXCEPT
                                  ![m] = Aggregate(run.mode, run.rounds, modelRuns, result)]
            /\ UNCHANGED matrix
       ELSE /\ matrix' = SetCell(matrix, task.key, m, result)
            /\ UNCHANGED <<sessionResults, testResults>>
    /\ completedCount' = cnt
    /\ testProgress' = NextProgress(testProgress, cnt)
    /\ wexpired' = [wexpired EXCEPT ![w] = FALSE]
    /\ waborted' = [waborted EXCEPT ![w] = FALSE]
    /\ IF queue # <<>>
       THEN \* queue.shift(), then the next probe is sent
            /\ queue' = Tail(queue)
            /\ wtask' = [wtask EXCEPT ![w] = Head(queue)]
            /\ probed' = [probed EXCEPT ![Head(queue)] = @ + 1]
            /\ UNCHANGED wpc
       ELSE /\ wpc' = [wpc EXCEPT ![w] = "exit"]
            /\ wtask' = [wtask EXCEPT ![w] = 0]
            /\ UNCHANGED <<queue, probed>>
    /\ UNCHANGED <<run, tasks, selectedApiId>>
    /\ UNCHANGED probeVars
    /\ UNCHANGED endpointVars
    /\ UNCHANGED chatVars
    /\ UNCHANGED queryVars

\* Promise.all(workers) resolved: the run ends (Dashboard clears the progress).
RunResolves ==
    /\ run.state = "running"
    /\ JoinAll
    /\ run' = [run EXCEPT !.state = "resolved"]
    /\ testProgress' = IF run.view = "dashboard" THEN Null ELSE testProgress
    /\ UNCHANGED <<tasks, queue, wpc, wtask, wexpired, waborted, probed, raw, finished,
                   sessionResults, testResults, matrix, completedCount, selectedApiId>>
    /\ UNCHANGED probeVars
    /\ UNCHANGED endpointVars
    /\ UNCHANGED chatVars
    /\ UNCHANGED queryVars

\* The connections of the sidebar.
ApiIds == {"api1", "api2"}

\* A connection is clicked in the sidebar: setSelectedApiId, and the effect on
\* selectedApiId calls loadModels, which empties both result tables. A run in
\* flight is not told.
SelectApi(a) ==
    /\ a # selectedApiId
    /\ selectedApiId' = a
    /\ testResults' = [m \in Models |-> Null]
    /\ UNCHANGED <<run, tasks, queue, wpc, wtask, wexpired, waborted, probed, raw, finished,
                   sessionResults, matrix, completedCount, testProgress>>
    /\ UNCHANGED probeVars
    /\ UNCHANGED endpointVars
    /\ UNCHANGED chatVars
    /\ UNCHANGED queryVars

\* --------------------------------------------------- endpoint resolution
\* Longest base URL tried, in characters.
MaxUrlLen == 5

\* A URL is the sequence of its characters: a host character, the slash, the
\* two characters of "v1" and the blank.
Chars == {"h", "/", "v", "1", " "}

Urls == UNION {[1..n -> Chars] : n \in 0..MaxUrlLen}

\* An optional string field that is undefined.
Unset == <<"undefined">>

\* An optional boolean field: undefined, true or false.
Flags == {"unset", "true", "false"}

\* Values stored in modelsEndpoint / chatEndpoint.
EndpointValues == {Unset, <<>>, <<" ", "h", "/">>, <<"h", "/", "v", "1", "/">>}

\* The literal suffixes, each kept as one token.
Suffix(type) == IF type = "models" THEN <<"models">> ELSE <<"chat/completions">>

RECURSIVE trimStart(_)
trimStart(s) == IF s # <<>> /\ Head(s) = " " THEN trimStart(Tail(s)) ELSE s

RECURSIVE trimEnd(_)
trimEnd(s) ==
    IF s # <<>> /\ s[Len(s)] = " " THEN trimEnd(SubSeq(s, 1, Len(s) - 1)) ELSE s

\* String.prototype.trim
trim(s) == trimEnd(trimStart(s))

\* String.prototype.endsWith
endsWith(s, suf) ==
    /\ Len(s) >= Len(suf)
    /\ SubSeq(s, Len(s) - Len(suf) + 1, Len(s)) = suf

\* baseUrl.trim(), then one trailing slash removed.
TrimmedBase(s) ==
    LET b == trim(s)
    IN  IF endsWith(b, <<"/">>) THEN SubSeq(b, 1, Len(b) - 1) ELSE b

\* Variant: the stored endpoint is normalised like a base URL.
OrEmptyTrimmed(ep) == IF ep = Unset THEN <<>> ELSE TrimmedBase(ep)

\* api.modelsEndpoint || '' : the stored string, '' when undefined or empty.
OrEmpty(ep) == IF ep = Unset THEN <<>> ELSE ep

\* Variant: the base URL is never taken to include /v1.
HasV1Never(baseUrl) == FALSE

\* baseUrl.endsWith('/v1')
HasV1(baseUrl) == endsWith(baseUrl, <<"/", "v", "1">>)

\* Variant: the legacy flag is honoured only when autoV1 is not false.
LegacyUnlessStrict(a) == a.skipAutoCompletion = "true" /\ a.autoV1 # "false"

\* if (api.skipAutoCompletion)
Legacy(a) == a.skipAutoCompletion = "true"

\* api.autoV1 ?? true
AutoV1(a) == IF a.autoV1 = "unset" THEN TRUE ELSE a.autoV1 = "true"

getEndpoint(a, type) ==
    IF a.connectionMode = "custom"
    THEN IF type = "models" THEN OrEmpty(a.modelsEndpoint) ELSE OrEmpty(a.chatEndpoint)
    ELSE LET baseUrl == TrimmedBase(a.baseUrl)
         IN  IF Legacy(a) THEN baseUrl \o <<"/">> \o Suffix(type)
             ELSE IF ~AutoV1(a) THEN baseUrl
             ELSE IF HasV1(baseUrl) THEN baseUrl \o <<"/">> \o Suffix(type)
             ELSE baseUrl \o <<"/", "v", "1", "/">> \o Suffix(type)

\* The ApiConfig testApiKeyConnectivity builds for its fetchModels call.
tempApi(baseUrl, skipAutoCompletion) ==
    [connectionMode |-> "standard", baseUrl |-> baseUrl,
     modelsEndpoint |-> Unset, chatEndpoint |-> Unset,
     skipAutoCompletion |-> IF skipAutoCompletion THEN "true" ELSE "false",
     autoV1 |-> IF skipAutoCompletion THEN "false" ELSE "true"]

\* The configurations tried: standard mode over every base URL, custom mode
\* over the stored endpoint values (and a short base URL, which it ignores).
ApiConfigs ==
    [connectionMode : {"standard"}, baseUrl : Urls,
     modelsEndpoint : {Unset}, chatEndpoint : {Unset},
     skipAutoCompletion : Flags, autoV1 : Flags]
    \cup
    [connectionMode : {"custom"}, baseUrl : {u \in Urls : Len(u) <= 1},
     modelsEndpoint : EndpointValues, chatEndpoint : EndpointValues,
     skipAutoCompletion : Flags, autoV1 : Flags]

NoUrl == [kind |-> "none", url |-> <<>>, via |-> "none"]

InitEndpointVars ==
    /\ api = tempApi(<<>>, FALSE)
    /\ resolved = NoUrl

\* getEndpoint(api, type), as each operation calls it first.
ResolveEndpoint(type) ==
    /\ resolved = NoUrl
    /\ resolved' = [kind |-> type, url |-> getEndpoint(api, type), via |-> "direct"]
    /\ UNCHANGED api
    /\ UNCHANGED probeVars
    /\ UNCHANGED schedVars
    /\ UNCHANGED chatVars
    /\ UNCHANGED queryVars

\* testApiKeyConnectivity(baseUrl, apiKey, skipAutoCompletion): fetchModels
\* resolves the models endpoint of the temporary configuration.
testApiKeyConnectivity(skipAutoCompletion) ==
    /\ resolved = NoUrl
    /\ api.connectionMode = "standard"
    /\ api' = tempApi(api.baseUrl, skipAutoCompletion)
    /\ resolved' = [kind |-> "models",
                    url |-> getEndpoint(tempApi(api.baseUrl, skipAutoCompletion), "models"),
                    via |-> "bulk"]
    /\ UNCHANGED probeVars
    /\ UNCHANGED schedVars
    /\ UNCHANGED chatVars
    /\ UNCHANGED queryVars

\* ------------------------------------------- sendChatMessage: the stream
\* Frames of one streamed response at most.
MaxFrames == 2

\* Fragments a frame's choices[0].delta.content can hold.
Contents == {"a", "b"}

\* The SSE text is a sequence of tokens: the prefix 'data: ', the opening and
\* the closing part of a frame's JSON, the content between them, the literal
\* [DONE], and the line feed.
ContentFrame(x) == <<"data: ", "{", x, "}", "LF">>

\* A frame whose delta carries no content.
EmptyFrame == <<"data: ", "{", "}", "LF">>

DoneFrame == <<"data: ", "[DONE]", "LF">>

Frames == {ContentFrame(x) : x \in Contents} \cup {EmptyFrame, DoneFrame}

Streams == UNION {[1..n -> Frames] : n \in 0..MaxFrames}

RECURSIVE Flatten(_)
\* The text of the stream: its frames one after the other.
Flatten(fs) == IF fs = <<>> THEN <<>> ELSE Head(fs) \o Flatten(Tail(fs))

RECURSIVE SplitLines(_)
\* chunkValue.split('\n')
SplitLines(s) ==
    IF \E i \in 1..Len(s) : s[i] = "LF"
    THEN LET i == CHOOSE k \in 1..Len(s) : s[k] = "LF" /\ \A j \in 1..(k - 1) : s[j] # "LF"
         IN  <<SubSeq(s, 1, i - 1)>> \o SplitLines(SubSeq(s, i + 1, Len(s)))
    ELSE <<s>>

\* JSON.parse(...).choices?.[0]?.delta?.content || '' ; '' also when the text
\* is not complete JSON (the exception is swallowed).
JsonContent(rest) ==
    IF Len(rest) = 3 /\ rest[1] = "{" /\ rest[3] = "}" /\ rest[2] \in Contents
    THEN rest[2] ELSE ""

\* What one line of a chunk gives onChunk ('' : nothing).
LineContent(line) ==
    IF Len(line) >= 1 /\ line[1] = "data: " /\ line # <<"data: ", "[DONE]">>
    THEN JsonContent(Tail(line)) ELSE ""

RECURSIVE ProcessLines(_, _)
\* for (const line of lines): the onChunk calls made, each with the position
\* in the stream of the line it came from.
ProcessLines(lines, base) ==
    IF lines = <<>> THEN <<>>
    ELSE (IF LineContent(Head(lines)) # ""
          THEN <<[content |-> LineContent(Head(lines)), pos |-> base]>> ELSE <<>>)
         \o ProcessLines(Tail(lines), base + Len(Head(lines)) + 1)

NoChat == [phase |-> "idle", frames |-> <<>>, text |-> <<>>, readTo |-> 0,
           keepOpen |-> FALSE, delivered |-> <<>>]

InitChatVars == chat = NoChat

\* sendChatMessage with stream: true got a 2xx response whose body is the
\* stream of these frames; the provider closes it afterwards or keeps it open.
StartStream(frames, keepOpen) ==
    /\ chat.phase = "idle"
    /\ chat' = [phase |-> "reading", frames |-> frames, text |-> Flatten(frames),
                readTo |-> 0, keepOpen |-> keepOpen, delivered |-> <<>>]
    /\ UNCHANGED probeVars
    /\ UNCHANGED schedVars
    /\ UNCHANGED endpointVars
    /\ UNCHANGED queryVars

\* reader.read() resolved with the next n tokens of the stream: the chunk is
\* split into lines and each line is handled.
ReadChunk(n) ==
    /\ chat.phase = "reading"
    /\ n >= 1 /\ chat.readTo + n <= Len(chat.text)
    /\ chat' = [chat EXCEPT
                  !.readTo = @ + n,
                  !.delivered = @ \o ProcessLines(
                      SplitLines(SubSeq(chat.text, chat.readTo + 1, chat.readTo + n)),
                      chat.readTo + 1)]
    /\ UNCHANGED probeVars
    /\ UNCHANGED schedVars
    /\ UNCHANGED endpointVars
    /\ UNCHANGED queryVars

\* reader.read() resolved with done: the loop ends, the log is saved and the
\* call returns.
StreamCloses ==
    /\ chat.phase = "reading"
    /\ chat.readTo = Len(chat.text)
    /\ ~chat.keepOpen
    /\ chat' = [chat EXCEPT !.phase = "returned"]
    /\ UNCHANGED probeVars
    /\ UNCHANGED schedVars
    /\ UNCHANGED endpointVars
    /\ UNCHANGED queryVars

\* -------------------------------------------------------------- getLogs
\* Records the store holds at most.
MaxLogs == 3

LogIds == 1..MaxLogs

\* Date.now() values of the records (two records can carry the same one).
Timestamps == {1, 2}

\* A LogRecord created at time ts.
TimedLog(id, ts) == [createLogEntry(id, "testModelLatency") EXCEPT !.timestamp = ts]

\* r comes before q in the index 'timestamp' walked backwards ('prev'): later
\* timestamp first, and for equal timestamps the greater primary key first.
Before(r, q) ==
    \/ r.timestamp > q.timestamp
    \/ r.timestamp = q.timestamp /\ r.id > q.id

RECURSIVE IndexPrev(_)
\* index.openCursor(null, 'prev') over the records of S: the order of the walk.
IndexPrev(S) ==
    IF S = {} THEN <<>>
    ELSE LET r == CHOOSE x \in S : \A y \in S \ {x} : Before(x, y)
         IN  <<r>> \o IndexPrev(S \ {r})

RECURSIVE CursorWalk(_, _, _, _, _)
\* request.onsuccess for each position of the cursor: the first `offset`
\* records are skipped, then each record is pushed and the walk goes on while
\* results.length < limit.
CursorWalk(recs, skippedCount, results, limit, offset) ==
    IF recs = <<>> THEN results
    ELSE IF results = <<>> /\ skippedCount < offset
    THEN CursorWalk(Tail(recs), skippedCount + 1, results, limit, offset)
    ELSE IF Len(results) + 1 < limit
    THEN CursorWalk(Tail(recs), skippedCount, Append(results, Head(recs)), limit, offset)
    ELSE Append(results, Head(recs))

NoQuery == [limit |-> -1, offset |-> -1, results |-> <<>>]

InitQueryVars == got = NoQuery

\* A saveLog whose transaction runs: store.add of a record created at time ts
\* (the record again, if one with this id is stored).
LogSaved(id, ts) ==
    /\ Len(store) <= MaxLogs
    /\ \A i \in 1..Len(store) : store[i].id = id => store[i].timestamp = ts
    /\ store' = StoreAdd(store, TimedLog(id, ts))
    /\ got' = NoQuery
    /\ UNCHANGED <<pc, cfg, log, timer, expired, ret, saves>>
    /\ UNCHANGED schedVars
    /\ UNCHANGED endpointVars
    /\ UNCHANGED chatVars

\* clearLogs(): store.clear().
clearLogs ==
    /\ store # <<>>
    /\ store' = <<>>
    /\ got' = NoQuery
    /\ UNCHANGED <<pc, cfg, log, timer, expired, ret, saves>>
    /\ UNCHANGED schedVars
    /\ UNCHANGED endpointVars
    /\ UNCHANGED chatVars

\* getLogs(limit, offset): one read-only transaction walks the index.
getLogs(limit, offset) ==
    /\ got = NoQuery
    /\ got' = [limit |-> limit, offset |-> offset,
               results |-> CursorWalk(IndexPrev({store[i] : i \in 1..Len(store)}),
                                      0, <<>>, limit, offset)]
    /\ UNCHANGED probeVars
    /\ UNCHANGED schedVars
    /\ UNCHANGED endpointVars
    /\ UNCHANGED chatVars

\* ------------------------------------------------------------- SpecProbe
InitProbeVars ==
    /\ pc = [c \in Calls |-> "idle"]
    /\ cfg = [c \in Calls |-> NoCfg]
    /\ log = [c \in Calls |-> NoLog]
    /\ timer = [c \in Calls |-> "none"]
    /\ expired = [c \in Calls |-> FALSE]
    /\ ret = [c \in Calls |-> NoRet]
    /\ saves = [c \in Calls |-> <<>>]
    /\ store = <<>>

InitProbe ==
    InitProbeVars /\ InitSchedVars /\ InitEndpointVars /\ InitChatVars /\ InitQueryVars

NextProbe ==
    \/ \E c \in Calls, op \in Ops, urlEmpty \in BOOLEAN, featOff \in BOOLEAN,
          stream \in BOOLEAN, silent \in BOOLEAN :
            /\ featOff => op = "fetchModels"
            /\ stream => op \in {"testModelLatency", "sendChatMessage"}
            /\ silent => ~urlEmpty /\ ~featOff
            /\ StartCall(c, op, urlEmpty, featOff, stream, silent)
    \/ \E c \in Calls, s \in HttpStatuses : FetchResolves(c, s)
    \/ \E c \in Calls : FetchFails(c)
    \/ \E c \in Calls : DeadlineExpires(c)
    \/ \E c \in Calls : FetchAborted(c)
    \/ \E c \in Calls, shape \in {"text", "array", "data", "other", "json", "tool",
                                   "plain", "null", "sse", "content"} : BodyRead(c, shape)
    \/ \E c \in Calls : BodyFails(c)
    \/ \E c \in Calls, k \in 1..2 : SaveOpens(c, k)
    \/ \E c \in Calls, k \in 1..2 : SaveOpenFails(c, k)
    \/ \E c \in Calls, k \in 1..2 : SaveCommits(c, k)
    \/ \E c \in Calls, k \in 1..2 : SaveTxFails(c, k)

SpecProbe == InitProbe /\ [][NextProbe]_vars

\* ------------------------------------------------------------- SpecSched
InitSched ==
    InitProbeVars /\ InitSchedVars /\ InitEndpointVars /\ InitChatVars /\ InitQueryVars

NextSched ==
    \/ \E sel \in Selections, mode \in {"latency", "tool"}, rounds \in 1..MaxTasks,
          conc \in Workers :
            /\ Len(sel) * rounds <= MaxTasks
            /\ runTests(sel, mode, rounds, conc)
    \/ \E keys \in KeyLists, models \in Selections, conc \in Workers :
            /\ Len(keys) * Len(models) <= MaxTasks
            /\ handleStart(keys, models, conc)
    \/ \E w \in Workers : ProbeDeadline(w)
    \/ \E w \in Workers, o \in Outcomes("latency") \cup Outcomes("tool"),
          lat \in LatencyValues : WorkerResume(w, o, lat)
    \/ RunResolves

SpecSched == InitSched /\ [][NextSched]_vars

\* ------------------------------------------------------------ SpecSwitch
\* A Dashboard run during which the user may select another connection.
NextSwitch ==
    \/ \E sel \in Selections, mode \in {"latency", "tool"}, rounds \in 1..MaxTasks,
          conc \in Workers :
            /\ Len(sel) * rounds <= MaxTasks
            /\ runTests(sel, mode, rounds, conc)
    \/ \E w \in Workers : ProbeDeadline(w)
    \/ \E w \in Workers, o \in Outcomes("latency") \cup Outcomes("tool"),
          lat \in LatencyValues : WorkerResume(w, o, lat)
    \/ RunResolves
    \/ \E a \in ApiIds : SelectApi(a)

SpecSwitch == InitSched /\ [][NextSwitch]_vars

\* ---------------------------------------------------------- SpecEndpoint
InitEndpoint ==
    /\ InitProbeVars
    /\ InitSchedVars
    /\ InitChatVars
    /\ InitQueryVars
    /\ api \in ApiConfigs
    /\ resolved = NoUrl

NextEndpoint ==
    \/ \E type \in {"models", "chat"} : ResolveEndpoint(type)
    \/ \E skipAutoCompletion \in BOOLEAN : testApiKeyConnectivity(skipAutoCompletion)

SpecEndpoint == InitEndpoint /\ [][NextEndpoint]_vars

\* ------------------------------------------------------------ SpecStream
InitStream ==
    InitProbeVars /\ InitSchedVars /\ InitEndpointVars /\ InitChatVars /\ InitQueryVars

NextStream ==
    \/ \E frames \in Streams, keepOpen \in BOOLEAN : StartStream(frames, keepOpen)
    \/ \E n \in 1..(5 * MaxFrames) : ReadChunk(n)
    \/ StreamCloses

SpecStream == InitStream /\ [][NextStream]_vars

\* -------------------------------------------------------------- SpecLogs
InitLogs ==
    InitProbeVars /\ InitSchedVars /\ InitEndpointVars /\ InitChatVars /\ InitQueryVars

NextLogs ==
    \/ \E id \in LogIds, ts \in Timestamps : LogSaved(id, ts)
    \/ clearLogs
    \/ \E limit \in 0..MaxLogs, offset \in 0..MaxLogs : getLogs(limit, offset)

SpecLogs == InitLogs /\ [][NextLogs]_vars

\* --------------------------------------------------- scheduler: the claims
NTasks == Len(tasks)

InFlight == {w \in Workers : wpc[w] = "await"}

Queued == {queue[i] : i \in 1..Len(queue)}

Completed == {t \in 1..NTasks : raw[t] # NoResult}

RECURSIVE SessionTotal(_)
\* Number of results in sessionResults over the models of S.
SessionTotal(S) ==
    IF S = {} THEN 0
    ELSE LET m == CHOOSE x \in S : TRUE
         IN  Len(sessionResults[m]) + SessionTotal(S \ {m})

\* C1: in a run every task is dequeued by exactly one worker and probed once,
\* one result is produced per finished task whatever its outcome, and the run
\* resolves only when all N tasks have completed.
C1_SchedulerCompleteness ==
    run.state # "idle" =>
        /\ \A t \in 1..NTasks : probed[t] <= 1 /\ (probed[t] = 1 <=> t \notin Queued)
        /\ \A t \in 1..NTasks :
              Cardinality({w \in InFlight : wtask[w] = t})
                + Cardinality({i \in 1..Len(finished) : finished[i] = t})
                = probed[t]
        /\ Cardinality(Completed) = Len(finished)
        /\ run.view = "dashboard" => SessionTotal(Models) = Len(finished)
        /\ completedCount = Len(finished)
        /\ run.state = "resolved" =>
              /\ Len(finished) = NTasks
              /\ \A t \in 1..NTasks : probed[t] = 1 /\ raw[t] # NoResult

\* C1 witness: a run of three tasks on two workers has resolved, its probes
\* having ended in a success, an HTTP error and a timeout.
C1_Witness ==
    /\ run.state = "resolved" /\ NTasks = 3 /\ run.W = 2
    /\ \E a, b, c \in 1..NTasks :
          /\ raw[a].status = "success"
          /\ raw[b].message = "http"
          /\ raw[c].message = "timeout"

\* C2: the probes in flight never exceed the testConcurrency of the run's
\* settings nor the number of tasks queued at the start.
C2_BoundedInFlight ==
    run.state # "idle" =>
        /\ Cardinality(InFlight) <= run.conc
        /\ Cardinality(InFlight) <= NTasks

\* C2 witness: with more tasks than workers, testConcurrency probes are in
\* flight while a task still waits in the queue.
C2_Witness ==
    /\ run.state = "running" /\ run.conc = 2 /\ NTasks = 3
    /\ Cardinality(InFlight) = 2 /\ queue # <<>>

\* The tasks of model m completed so far in the run.
RoundsDone(m) == {t \in Completed : tasks[t].model = m}

RECURSIVE SumRaw(_)
\* Sum of the latencies carried by the results of the tasks of S.
SumRaw(S) ==
    IF S = {} THEN 0
    ELSE LET t == CHOOSE x \in S : TRUE
         IN  raw[t].latency + SumRaw(S \ {t})

\* C12: after each completed round the status published for a model follows
\* from all the rounds of that model completed so far: latency mode 'success'
\* if one succeeded else 'error'; tool mode 'supported' if one was supported,
\* else 'error' if one ended in error, else 'unsupported'.
C12_StatusFromAllRounds ==
    run.view = "dashboard" =>
        \A m \in Models :
            RoundsDone(m) # {} =>
                /\ testResults[m] # Null
                /\ run.mode = "latency" =>
                      testResults[m].status =
                          IF \E t \in RoundsDone(m) : raw[t].status = "success"
                          THEN "success" ELSE "error"
                /\ run.mode = "tool" =>
                      testResults[m].status =
                          IF \E t \in RoundsDone(m) : raw[t].status = "supported"
                          THEN "supported"
                          ELSE IF \E t \in RoundsDone(m) : raw[t].status = "error"
                          THEN "error" ELSE "unsupported"

\* C12 witness: in tool mode a model's first round ended in error and its
\* second, completed last, was unsupported: 'error' is published.
C12_Witness ==
    /\ run.view = "dashboard" /\ run.mode = "tool"
    /\ Len(sessionResults["m1"]) = 2
    /\ sessionResults["m1"][1].status = "error"
    /\ sessionResults["m1"][2].status = "unsupported"
    /\ testResults["m1"].status = "error"

\* C13: the latency published for a model after its k-th completed round is
\* the sum of the latencies carried by the results of those k rounds divided
\* by k and rounded to the nearest integer (halves upwards); after all R
\* rounds k is R.
C13_AverageLatency ==
    run.view = "dashboard" =>
        \A m \in Models :
            LET k == Cardinality(RoundsDone(m))
                s == SumRaw(RoundsDone(m))
            IN  k >= 1 =>
                    /\ 2 * k * testResults[m].latency <= 2 * s + k
                    /\ 2 * s + k < 2 * k * testResults[m].latency + 2 * k
                    /\ run.state = "resolved" => k = run.rounds

\* C13 witness: two rounds of a model are over, one measured 25 ms and one
\* failed with latency 0: 13 is published (12.5 rounded).
C13_Witness ==
    /\ run.state = "resolved" /\ run.mode = "latency" /\ run.rounds = 2
    /\ \E i, j \in 1..2 :
          /\ sessionResults["m1"][i].latency = 25
          /\ sessionResults["m1"][j].status = "error"
    /\ testResults["m1"].latency = 13

\* The orders in which n rounds can complete.
Perms(n) == {p \in [1..n -> 1..n] : \A i, j \in 1..n : p[i] = p[j] => i = j}

\* The entry published after the rounds rs completed in the order p.
EntryInOrder(rs, p) ==
    LET q == [i \in 1..Len(rs) |-> rs[p[i]]]
    IN  Aggregate(run.mode, run.rounds, q, q[Len(q)])

\* C14 as stated: whatever the order of completion, only the last-round message
\* of the final entry differs; every other field is the same.
C14_OnlyLastMessageVaries ==
    (run.state = "resolved" /\ run.view = "dashboard") =>
        \A m \in Models : \A p \in Perms(Len(sessionResults[m])) :
            sessionResults[m] # <<>> =>
                LET e == EntryInOrder(sessionResults[m], p)
                IN  [e EXCEPT !.message.last = "any"]
                        = [testResults[m] EXCEPT !.message.last = "any"]

\* The part of C14 that does hold: whatever the order of completion, the final
\* entry has the same average latency, success count (and round count) and
\* status.
C14_AggregatesOrderFree ==
    (run.state = "resolved" /\ run.view = "dashboard") =>
        \A m \in Models : \A p \in Perms(Len(sessionResults[m])) :
            sessionResults[m] # <<>> =>
                LET e == EntryInOrder(sessionResults[m], p)
                IN  /\ e.latency = testResults[m].latency
                    /\ e.status = testResults[m].status
                    /\ e.message.ok = testResults[m].message.ok
                    /\ e.message.of = testResults[m].message.of
                    /\ e.message.avg = testResults[m].message.avg

\* C14 witness: a model's two rounds ended differently, an HTTP error first
\* and a success last, and the run resolved.
C14_Witness ==
    /\ run.state = "resolved" /\ run.view = "dashboard" /\ run.mode = "latency"
    /\ Len(sessionResults["m1"]) = 2
    /\ sessionResults["m1"][1].message = "http"
    /\ sessionResults["m1"][2].status = "success"
    /\ testResults["m1"].status = "success" /\ testResults["m1"].statusCode = 200

\* The workers whose probe in flight is a probe of model m.
SameModelInFlight(m) == {w \in InFlight : tasks[wtask[w]].model = m}

\* C25 as stated: with more than one round, no two probes of the same model
\* are ever in flight together, whatever the worker count.
C25_RoundsOneAfterTheOther ==
    (run.view = "dashboard" /\ run.rounds > 1) =>
        \A m \in Models : Cardinality(SameModelInFlight(m)) <= 1

\* C25 amended: the rounds of a model are queued one after the other and the
\* tasks are dequeued in queue order; the probes of one model in flight are at
\* most min(testConcurrency, rounds), hence one at a time only for a single
\* worker.
C25_RoundsOverlapBounded ==
    run.view = "dashboard" =>
        /\ \A m \in Models :
              /\ Cardinality(SameModelInFlight(m)) <= run.conc
              /\ Cardinality(SameModelInFlight(m)) <= run.rounds
        /\ \A i, j, k \in 1..NTasks :
              (i < j /\ j < k /\ tasks[i].model = tasks[k].model)
                  => tasks[j].model = tasks[i].model
        /\ \A t \in Queued : \A u \in 1..NTasks : u \notin Queued => u < t

\* C25 witness: two rounds of the same model are in flight on two workers.
C25_Witness ==
    /\ run.view = "dashboard" /\ run.rounds >= 2 /\ run.W = 2
    /\ Cardinality(SameModelInFlight("m1")) = 2

\* The tasks of model m in the run's queue.
TasksOf(m) == {t \in 1..NTasks : tasks[t].model = m}

\* C26 as stated: when a bulk run resolves every row of the matrix holds one
\* result per selected model, also when a key was entered on two lines.
C26_EveryCellFilled ==
    (run.state = "resolved" /\ run.view = "bulk") =>
        \A i \in 1..Len(matrix) : \A m \in Models :
            TasksOf(m) # {} => matrix[i].results[m] # Null

\* C26 witness: the key entered twice has two rows; the run resolved with the
\* first row filled and the second still empty.
C26_Witness ==
    /\ run.state = "resolved" /\ run.view = "bulk"
    /\ Len(matrix) = 2 /\ matrix[1].key = matrix[2].key
    /\ matrix[1].results["m1"] # Null /\ matrix[2].results["m1"] = Null

\* C27: when a run with R rounds resolves, the entry of each selected model
\* aggregates exactly the R results of that model's tasks: the run's list of
\* the model holds each of them once, and the entry's success count, round
\* count and average latency are those of these R results.
C27_ExactlyTheRounds ==
    (run.state = "resolved" /\ run.view = "dashboard") =>
        \A m \in Models :
            TasksOf(m) # {} =>
                LET rs == sessionResults[m]
                IN  /\ Len(rs) = run.rounds /\ Cardinality(TasksOf(m)) = run.rounds
                    /\ \A t \in TasksOf(m) :
                          Cardinality({i \in 1..Len(rs) : rs[i] = raw[t]})
                              = Cardinality({u \in TasksOf(m) : raw[u] = raw[t]})
                    /\ testResults[m].message.of = run.rounds
                    /\ testResults[m].message.ok =
                          Cardinality({t \in TasksOf(m) :
                              raw[t].status \in {"success", "supported"}})
                    /\ 2 * run.rounds * testResults[m].latency
                          <= 2 * SumRaw(TasksOf(m)) + run.rounds
                    /\ 2 * SumRaw(TasksOf(m)) + run.rounds
                          < 2 * run.rounds * testResults[m].latency + 2 * run.rounds

\* C27 witness: three rounds of one model ran on two workers and the run
\* resolved with two of them counted as successes.
C27_Witness ==
    /\ run.state = "resolved" /\ run.view = "dashboard"
    /\ run.rounds = 3 /\ run.W = 2
    /\ testResults["m1"].message.ok = 2 /\ testResults["m1"].message.of = 3

\* C28 as stated: every entry of the latency table whose status is 'success'
\* carries a statusCode in [200,300).
C28_SuccessEntryHas2xx ==
    (run.view = "dashboard" /\ run.mode = "latency") =>
        \A m \in Models :
            (testResults[m] # Null /\ testResults[m].status = "success") =>
                (testResults[m].statusCode >= 200 /\ testResults[m].statusCode < 300)

\* C28 witness: a model's first round succeeded and its second timed out: the
\* entry reads 'success' with statusCode 0.
C28_Witness ==
    /\ run.view = "dashboard" /\ run.mode = "latency"
    /\ Len(sessionResults["m1"]) = 2
    /\ sessionResults["m1"][1].status = "success"
    /\ sessionResults["m1"][2].message = "timeout"
    /\ testResults["m1"].status = "success" /\ testResults["m1"].statusCode = 0

\* C30 as stated: while another connection than the one the run was started
\* for is selected, the result tables hold no result of that run.
C30_NoResultAfterSwitch ==
    (run.view = "dashboard" /\ run.api # selectedApiId) =>
        \A m \in Models : testResults[m] = Null

\* C30 witness: the run was started for api1, api2 was selected while a probe
\* was in flight, and the probe's result is in the table now shown.
C30_Witness ==
    /\ run.view = "dashboard" /\ run.api = "api1" /\ selectedApiId = "api2"
    /\ testResults["m1"] # Null

\* C7 (states): while tasks remain queued every worker is busy with a probe of
\* its own (none waits for another worker's probe); a probe is aborted only by
\* its own deadline; and a timed-out probe gives its own task an error result.
C7_NoWorkerBlocked ==
    run.state = "running" =>
        /\ queue # <<>> => \A w \in 1..run.W : wpc[w] = "await"
        /\ \A w \in Workers : waborted[w] => (wexpired[w] /\ wpc[w] = "await")
        /\ \A t \in Completed :
              raw[t].message \in {"timeout", "abort"} => raw[t].status = "error"

\* C7 (steps): a step in which a task's probe ends (by its timeout or
\* otherwise) changes neither the result already recorded for another task nor
\* the probe in flight of another worker nor the table entry of another model;
\* a worker's probe is aborted only in the step in which its own deadline passes.
C7_SiblingsUntouched ==
    /\ \A t \in 1..NTasks : raw[t] # NoResult => raw'[t] = raw[t]
    /\ \A w \in Workers :
          (wpc[w] = "await" /\ NTasks' = NTasks /\ raw'[wtask[w]] = NoResult)
              => /\ wpc'[w] = "await" /\ wtask'[w] = wtask[w]
                 /\ waborted'[w] # waborted[w] => (~wexpired[w] /\ wexpired'[w])
    /\ \A m \in Models :
          (\A t \in 1..NTasks : (raw[t] = NoResult /\ raw'[t] # NoResult) => tasks[t].model # m)
              => (testResults'[m] = testResults[m] /\ sessionResults'[m] = sessionResults[m])

\* C7: with W >= 2 a probe that hangs until its deadline neither blocks nor
\* fails its siblings.
C7_TimeoutIsolation == [](C7_NoWorkerBlocked) /\ [][C7_SiblingsUntouched]_vars

\* C7 witness: on two workers the first task dequeued hung until its deadline
\* and completed last, as a timeout, after both other tasks had succeeded on
\* the other worker.
C7_Witness ==
    /\ run.W = 2 /\ NTasks = 3 /\ Len(finished) = 3
    /\ finished[3] = 1 /\ raw[1].status = "error"
    /\ raw[1].message \in {"timeout", "abort"}
    /\ raw[2].status = "success" /\ raw[3].status = "success"

\* C8 (states): during a run total is the number of queued tasks and completed
\* is the number of tasks finished so far, hence equal to total once the last
\* task has finished.
C8_ProgressCounts ==
    run.state = "running" =>
        /\ testProgress # Null
        /\ testProgress.total = NTasks
        /\ testProgress.current = Len(finished)
        /\ Len(finished) = NTasks => testProgress.current = testProgress.total

\* C8 (steps): during a run completed never decreases and grows by exactly one
\* with each finished task.
C8_ProgressStep ==
    (run.state = "running" /\ run'.state = "running") =>
        /\ testProgress'.total = testProgress.total
        /\ testProgress'.current = testProgress.current + (Len(finished') - Len(finished))
        /\ Len(finished') - Len(finished) \in {0, 1}

\* C8: the progress reported during a run.
C8_Progress == [](C8_ProgressCounts) /\ [][C8_ProgressStep]_vars

\* C8 witness: all three tasks of a run on two workers have finished and the
\* progress reads (3, 3).
C8_Witness ==
    /\ run.state = "running" /\ run.W = 2 /\ NTasks = 3
    /\ testProgress = [current |-> 3, total |-> 3]

\* Time passes and a rejected promise is handled: the timer callback runs once
\* the deadline is reached, and the aborted fetch's rejection reaches the catch
\* block. The endpoint is under no obligation to answer.
FairSpecProbe ==
    /\ SpecProbe
    /\ \A c \in Calls : WF_vars(DeadlineExpires(c)) /\ WF_vars(FetchAborted(c))

\* ------------------------------------------------------ probe: the claims
\* The call created a LogRecord (it got past endpoint resolution).
Attempted(c) == log[c].id = c

\* The call is over and so is every save it started.
Settled(c) ==
    /\ pc[c] = "done"
    /\ \A k \in 1..Len(saves[c]) : SavePromise(saves[c][k]) # "pending"

\* Number of stored records of call c.
StoredCount(c) == Cardinality({i \in 1..Len(store) : store[i].id = c})

\* A save the database itself failed (open error, quota), as opposed to one
\* refused because the record was already there.
DbFailed(sv) == sv.phase \in {"openFailed", "txFailed"}

\* C3 as stated: every call, on every path including the configuration error,
\* leaves exactly one record of its own in the store once its saves are over.
C3_ExactlyOneRecordEveryPath ==
    \A c \in Calls : Settled(c) => StoredCount(c) = 1

\* C3 amended: a call that created a LogRecord hands it to saveLog once or
\* twice and the store never holds two records of it, and holds exactly one
\* unless the database failed every one of these saves; a call that fails on
\* the configuration error (or fetchModels with the models feature off)
\* creates no LogRecord and stores none.
C3_OneRecordPerAttempt ==
    \A c \in Calls :
        /\ StoredCount(c) <= 1
        /\ Len(saves[c]) <= 2
        /\ pc[c] = "done" => (Attempted(c) <=> Len(saves[c]) >= 1)
        /\ ~Attempted(c) => StoredCount(c) = 0
        /\ (Settled(c) /\ Attempted(c) /\ \E k \in 1..Len(saves[c]) : ~DbFailed(saves[c][k]))
              => StoredCount(c) = 1

\* C3 witness: a call that saved twice (an HTTP error of fetchModels) is
\* settled with one record stored and the second save refused.
C3_Witness ==
    \E c \in Calls :
        /\ Settled(c) /\ Len(saves[c]) = 2 /\ StoredCount(c) = 1
        /\ \E k \in 1..2 : saves[c][k].phase = "dupRejected"

\* C4 as stated: fetchModels and the two tests never throw; sendChatMessage
\* throws only after a saveLog call.
C4_ThreeOpsNeverThrow ==
    \A c \in Calls :
        pc[c] = "done" =>
            /\ cfg[c].op # "sendChatMessage" => ret[c].kind = "returned"
            /\ ret[c].kind = "thrown" => Len(saves[c]) >= 1

\* C4 amended: testModelLatency and testModelToolSupport never throw, every
\* failure of theirs is a returned result of status 'error'; fetchModels and
\* sendChatMessage throw on failure, after a saveLog call except for the
\* configuration error, which is thrown before a LogRecord exists.
C4_OnlyTestsNeverThrow ==
    \A c \in Calls :
        pc[c] = "done" =>
            /\ cfg[c].op \in {"testModelLatency", "testModelToolSupport"}
                  => /\ ret[c].kind = "returned"
                     /\ ret[c].status \in {"success", "supported", "unsupported", "error"}
                     /\ (log[c].error # "none" \/ ~Attempted(c)) => ret[c].status = "error"
            /\ ret[c].kind = "thrown"
                  => /\ cfg[c].op \in {"fetchModels", "sendChatMessage"}
                     /\ ret[c].message # "config" => Len(saves[c]) >= 1
                     /\ ret[c].message = "config" => ~Attempted(c)

\* C4 witness: a transport failure of a test has come back as a returned
\* result of status 'error', its record handed to saveLog.
C4_Witness ==
    \E c \in Calls :
        /\ cfg[c].op = "testModelToolSupport" /\ pc[c] = "done"
        /\ ret[c] = Returned("error", -1, "network") /\ Len(saves[c]) = 1

\* C5 as stated: when T seconds pass before the response of a test is fully
\* consumed (headers or body), the call is aborted and returns status 'error'
\* with the timeout message.
C5_DeadlineCoversWholeCall ==
    \A c \in Calls :
        (cfg[c].op \in {"testModelLatency", "testModelToolSupport"} /\ expired[c])
            => /\ timer[c] = "fired"
               /\ pc[c] = "done" => (ret[c].status = "error" /\ ret[c].message = "timeout")

\* C6 as stated: a call of any of the four operations against an endpoint
\* that never answers eventually returns or throws.
C6_EveryCallTerminates ==
    \A c \in Calls : (pc[c] = "fetch" /\ cfg[c].silent) ~> (pc[c] = "done")

\* C6 amended: a call of fetchModels, testModelLatency or testModelToolSupport
\* against an endpoint that never answers is ended by its own deadline: it
\* eventually returns or throws, the deadline having passed. (sendChatMessage
\* sets no deadline.)
C6_TimedCallsTerminate ==
    \A c \in Calls :
        (pc[c] = "fetch" /\ cfg[c].silent /\ HasTimer(cfg[c].op))
            ~> (pc[c] = "done" /\ expired[c] /\ log[c].error = "abort")

\* C6 witness: a call against a silent endpoint ended by its deadline.
C6_Witness ==
    \E c \in Calls :
        /\ cfg[c].silent /\ HasTimer(cfg[c].op)
        /\ pc[c] = "done" /\ expired[c] /\ timer[c] = "fired"

\* C9 as stated: the promise saveLog returns never rejects, whether the
\* database cannot be opened or the write transaction fails.
C9_SaveLogNeverRejects ==
    \A c \in Calls : \A k \in 1..Len(saves[c]) : SavePromise(saves[c][k]) # "rejected"

\* C10 as stated: once a call that created a LogRecord has returned or thrown,
\* the record is in the store.
C10_StoredAtReturn ==
    \A c \in Calls : (pc[c] = "done" /\ Attempted(c)) => StoredCount(c) = 1

\* C10 amended: once a call that created a LogRecord has returned or thrown,
\* the record has been handed to saveLog, which stores it later (if at all);
\* what is stored then is the record as it was when the call ended.
C10_HandedToSinkAtReturn ==
    \A c \in Calls :
        /\ (pc[c] = "done" /\ Attempted(c)) => Len(saves[c]) >= 1
        /\ \A i \in 1..Len(store) : store[i].id = c => (pc[c] = "done" /\ store[i] = log[c])
        /\ StoredCount(c) = 1 => \E k \in 1..Len(saves[c]) : saves[c][k].phase = "stored"

\* C10 witness: the call has returned while its save is still opening the
\* database and nothing is stored.
C10_Witness ==
    \E c \in Calls :
        /\ pc[c] = "done" /\ ret[c].kind = "returned" /\ Attempted(c)
        /\ saves[c][1].phase = "opening" /\ StoredCount(c) = 0

\* C11: whenever testModelLatency returned 'success' or testModelToolSupport
\* returned 'supported', the HTTP status of that attempt was in [200,300) and
\* the response body was read to its end without an exception.
C11_SuccessImpliesOkAndRead ==
    \A c \in Calls :
        (/\ cfg[c].op \in {"testModelLatency", "testModelToolSupport"}
         /\ ret[c].status \in {"success", "supported"}) =>
            /\ pc[c] = "done"
            /\ log[c].status >= 200 /\ log[c].status < 300
            /\ log[c].body # "none"
            /\ log[c].error = "none"

\* C11 witness: testModelToolSupport returned 'supported' on a 200 whose body
\* carried a tool call.
C11_Witness ==
    \E c \in Calls :
        /\ cfg[c].op = "testModelToolSupport" /\ ret[c].status = "supported"
        /\ log[c].status = 200 /\ log[c].body = "tool"

\* C18: a call whose resolved URL is empty is over at once and no request is
\* ever in flight for it (no LogRecord, no timer, no save); fetchModels and
\* sendChatMessage throw the configuration error, testModelLatency and
\* testModelToolSupport return status 'error'. (fetchModels on a configuration
\* without the 'models' feature returns before it resolves a URL.)
C18_EmptyUrlFailsAtOnce ==
    \A c \in Calls :
        (pc[c] # "idle" /\ cfg[c].urlEmpty) =>
            /\ pc[c] = "done"
            /\ ~Attempted(c) /\ timer[c] = "none" /\ saves[c] = <<>>
            /\ (cfg[c].op = "fetchModels" /\ ~cfg[c].featOff) => ret[c] = Thrown("config")
            /\ cfg[c].op = "sendChatMessage" => ret[c] = Thrown("config")
            /\ cfg[c].op \in {"testModelLatency", "testModelToolSupport"} =>
                  (ret[c].kind = "returned" /\ ret[c].status = "error"
                   /\ ret[c].message = "config")

\* C18 witness: sendChatMessage with no chat endpoint threw the configuration
\* error, nothing sent and nothing logged.
C18_Witness ==
    \E c \in Calls :
        /\ cfg[c].op = "sendChatMessage" /\ cfg[c].urlEmpty
        /\ pc[c] = "done" /\ ret[c] = Thrown("config") /\ saves[c] = <<>>

\* C19 as stated: testModelToolSupport returns 'supported' exactly when the
\* response is 2xx and its first choice carries a tool call (or function_call),
\* 'unsupported' for every other 2xx response whose body was read, and 'error'
\* for every non-2xx response, transport failure or timeout.
C19_ToolSupportClassification ==
    \A c \in Calls :
        (cfg[c].op = "testModelToolSupport" /\ pc[c] = "done" /\ Attempted(c)) =>
            LET ok == log[c].status >= 200 /\ log[c].status < 300
                read == log[c].body # "none"
            IN  /\ ret[c].status = "supported" <=> (ok /\ log[c].body = "tool")
                /\ (ok /\ read /\ log[c].body # "tool") => ret[c].status = "unsupported"
                /\ ~ok => ret[c].status = "error"

\* C19 witness: a 200 whose body is the JSON value null was read, and the call
\* returned 'error' after handing its log to the sink twice.
C19_Witness ==
    \E c \in Calls :
        /\ cfg[c].op = "testModelToolSupport" /\ pc[c] = "done"
        /\ log[c].status = 200 /\ log[c].body = "null"
        /\ ret[c].status = "error" /\ Len(saves[c]) = 2

\* C20 as stated: for fetchModels, testModelLatency and testModelToolSupport
\* alike a call ended by its deadline reports the dedicated timeout message,
\* which a transport failure never reports. (The message "abort" stands for
\* the AbortError's own text, "timeout" for the operation's timeout message.)
C20_DedicatedTimeoutMessage ==
    \A c \in Calls :
        (pc[c] = "done" /\ HasTimer(cfg[c].op) /\ Attempted(c)) =>
            /\ timer[c] = "fired" => ret[c].message = "timeout"
            /\ timer[c] # "fired" => ret[c].message # "timeout"

\* C20 witness: a testModelToolSupport call was aborted by its own timer and
\* returned the AbortError's message.
C20_Witness ==
    \E c \in Calls :
        /\ cfg[c].op = "testModelToolSupport" /\ pc[c] = "done" /\ timer[c] = "fired"
        /\ ret[c].status = "error" /\ ret[c].message = "abort"

\* C29 as stated: for every testModelLatency attempt the statusCode of the
\* returned result equals the status in the attempt's LogRecord, and
\* statusCode 0 is reported only when no HTTP response was received.
C29_StatusCodeMatchesLog ==
    \A c \in Calls :
        (cfg[c].op = "testModelLatency" /\ pc[c] = "done" /\ Attempted(c)) =>
            /\ ret[c].statusCode = log[c].status
            /\ ret[c].statusCode = 0 => log[c].status = 0

\* C29 witness: the response arrived with status 200, reading its body
\* failed, and the result carries statusCode 0.
C29_Witness ==
    \E c \in Calls :
        /\ cfg[c].op = "testModelLatency" /\ pc[c] = "done"
        /\ log[c].status = 200 /\ ret[c].statusCode = 0

\* ------------------------------------------------------ stream: the claims
RECURSIVE AllContent(_)
\* The content of the frames that carry one, in stream order.
AllContent(fs) ==
    IF fs = <<>> THEN <<>>
    ELSE (IF Len(Head(fs)) = 5 THEN <<Head(fs)[3]>> ELSE <<>>) \o AllContent(Tail(fs))

\* The fragments onChunk was given, in order.
Delivered == [i \in 1..Len(chat.delivered) |-> chat.delivered[i].content]

\* Position of the last token of the first [DONE] line, 0 if there is none.
DoneEnd ==
    IF \E i \in 1..Len(chat.text) : chat.text[i] = "[DONE]"
    THEN 1 + CHOOSE i \in 1..Len(chat.text) :
                 chat.text[i] = "[DONE]" /\ \A j \in 1..(i - 1) : chat.text[j] # "[DONE]"
    ELSE 0

\* C21 as stated: however the text is split into reads, when the call returns
\* onChunk has been given the content of every frame that carries one, once
\* each and in stream order.
C21_EveryFrameDeliveredOnce ==
    chat.phase = "returned" => Delivered = AllContent(chat.frames)

\* C21 witness: the call returned from a stream that carried content without
\* having given onChunk anything: each content frame was cut by a read.
C21_Witness ==
    /\ chat.phase = "returned"
    /\ AllContent(chat.frames) # <<>> /\ chat.delivered = <<>>

\* C22 as stated: nothing that follows the [DONE] line is given to onChunk,
\* and once the [DONE] line has been read the call has returned, whether or
\* not the provider closes the stream.
C22_DoneEndsTheExchange ==
    DoneEnd > 0 =>
        /\ \A i \in 1..Len(chat.delivered) : chat.delivered[i].pos < DoneEnd
        /\ chat.readTo >= DoneEnd => chat.phase = "returned"

\* C22 witness: the whole stream, ending with [DONE], was read and the
\* provider keeps the connection open: the call is still reading.
C22_Witness ==
    /\ DoneEnd > 0 /\ chat.readTo = Len(chat.text) /\ DoneEnd = Len(chat.text)
    /\ chat.keepOpen /\ chat.phase = "reading"

\* -------------------------------------------------------- sink: the claims
Min(a, b) == IF a < b THEN a ELSE b

Max(a, b) == IF a > b THEN a ELSE b

\* C23 as stated: getLogs(limit, offset) returns the stored records most
\* recent first, without the first `offset` of them, exactly
\* min(limit, max(0, n - offset)) records for a store of n.
C23_GetLogsPage ==
    got # NoQuery =>
        LET all == IndexPrev({store[i] : i \in 1..Len(store)})
            k == Min(got.limit, Max(0, Len(store) - got.offset))
        IN  /\ Len(got.results) = k
            /\ got.results = SubSeq(all, got.offset + 1, got.offset + k)
            /\ \A i \in 1..(Len(got.results) - 1) :
                  got.results[i].timestamp >= got.results[i + 1].timestamp

\* C23 witness: getLogs(0, 0) on a store of two records returned one record.
C23_Witness ==
    /\ got.limit = 0 /\ got.offset = 0 /\ Len(store) = 2
    /\ Len(got.results) = 1

\* C24 (steps): every record stored before the step is stored unchanged after
\* it, at its place, and a record the step adds has an id the store did not
\* hold.
C24_Preserved ==
    /\ \A i \in 1..Len(store) : i <= Len(store') /\ store'[i] = store[i]
    /\ \A j \in (Len(store) + 1)..Len(store') : ~HasKey(store, store'[j].id)

Contains(s, sub) ==
    \E i \in 1..(Len(s) - Len(sub) + 1) : SubSeq(s, i, i + Len(sub) - 1) = sub

\* C15: in custom connection mode getEndpoint returns the stored modelsEndpoint
\* (kind models) or chatEndpoint (kind chat) character for character, whatever
\* baseUrl, autoV1 and skipAutoCompletion are, and the empty string when that
\* endpoint is unset.
C15_CustomVerbatim ==
    (resolved.kind # "none" /\ api.connectionMode = "custom") =>
        LET ep == IF resolved.kind = "models" THEN api.modelsEndpoint ELSE api.chatEndpoint
        IN  resolved.url = IF ep = Unset THEN <<>> ELSE ep

\* C15 witness: a chat endpoint stored with a leading blank and a trailing
\* slash came back as stored, with autoV1 on and a base URL present, while the
\* unset models endpoint of the same configuration would resolve to ''.
C15_Witness ==
    /\ api.connectionMode = "custom" /\ api.autoV1 = "true" /\ api.baseUrl = <<"h">>
    /\ api.chatEndpoint = <<" ", "h", "/">> /\ api.modelsEndpoint = Unset
    /\ resolved.kind = "chat" /\ resolved.url = <<" ", "h", "/">>

\* C16: in standard mode with autoV1 true or unset and the legacy flag not set,
\* getEndpoint returns <base>/<suffix> when the trimmed base ends with /v1 and
\* <base>/v1/<suffix> otherwise, and the result holds /v1/v1 only if the base
\* URL given already did.
C16_AutoV1 ==
    (/\ resolved.kind # "none" /\ api.connectionMode = "standard"
     /\ api.autoV1 \in {"true", "unset"} /\ api.skipAutoCompletion # "true") =>
        LET b == TrimmedBase(api.baseUrl)
        IN  /\ resolved.url =
                 IF endsWith(b, <<"/", "v", "1">>)
                 THEN b \o <<"/">> \o Suffix(resolved.kind)
                 ELSE b \o <<"/", "v", "1", "/">> \o Suffix(resolved.kind)
            /\ Contains(resolved.url, <<"/", "v", "1", "/", "v", "1">>)
                  => Contains(api.baseUrl, <<"/", "v", "1", "/", "v", "1">>)

\* C16 witness: the base 'h/v1/' with autoV1 unset resolved to 'h/v1/models'.
C16_Witness ==
    /\ api.connectionMode = "standard" /\ api.autoV1 = "unset"
    /\ api.skipAutoCompletion = "unset"
    /\ api.baseUrl = <<"h", "/", "v", "1", "/">>
    /\ resolved.kind = "models" /\ resolved.url = <<"h", "/", "v", "1", "/", "models">>

====
